---- MODULE Spec2Model ----
(***************************************************************************)
(* Model of the pipeline of astromatic_wrapper: the step registry          *)
(* (Pipeline.add_step, PipelineStep) and the execution engine              *)
(* (Pipeline.run).                                                         *)
(*                                                                         *)
(* Sources.  src/astromatic_wrapper/pipeline.py holds the class Pipeline    *)
(* with add_step and run, and the class PipelineStep.  Its run is modelled *)
(* as it is written (action run, specification SpecSrc): the list          *)
(* comprehension that filters the steps reads `self.tags`, an attribute    *)
(* the class Pipeline never sets, so a run over a non-empty step list      *)
(* raises before any step is invoked.                                      *)
(*                                                                         *)
(* The engine that utils/tests/test_pipeline.py exercises, the module      *)
(* astromatic_wrapper.utils.pipeline (stored results, run cursor,          *)
(* checkpoint file, resume, start index, tolerated errors and faults), is  *)
(* not among the source files.  It is modelled from spec.md section 4.5    *)
(* and the assertions of that test file (actions RunStart and RunStep,     *)
(* specification Spec); definitions modelled that way are marked (spec).   *)
(* Where pipeline.py has the same statement (the test of the result's      *)
(* status, the stacking of warnings, the returned dicts) the definition    *)
(* follows pipeline.py.                                                    *)
(*                                                                         *)
(* Specifications.  Spec: the engine.  SpecReport: the engine over steps   *)
(* whose results carry warnings tables, with runs over an explicit step    *)
(* list.  SpecAdd: the constructor and add_step of pipeline.py, with a     *)
(* steps list handed to the constructor and strings passed to add_step.    *)
(* SpecSrc: add_step and run of pipeline.py.  SpecCmd: the command builder *)
(* of api.py (build_cmd, run_frames), which is not among the source files  *)
(* either and is modelled from spec.md section 4.1 and the commands        *)
(* tests/test_api.py expects.                                              *)
(***************************************************************************)
EXTENDS Integers, Sequences, FiniteSets, TLC

\* ---------------------------------------------------------------- bounds
MaxSteps == 2
MaxRuns == 2
MaxConfig == 2
MaxChunks == 3
MaxPipes == 2
MaxInvalid == 2

\* ---------------------------------------------------------------- values
Tags == {"A", "B"}

\* A warnings table that is absent (Python None / key not in the result).
NoTable == [present |-> FALSE, rows |-> <<>>]

\* A step's stored result before any run (PipelineStep.results is None).
NoResult ==
    [status |-> "null", error |-> "", value |-> -1, next_id |-> -1,
     step_id |-> -1, warnings |-> NoTable, filename |-> ""]

\* Pipeline.run_steps before any run (None).
NoSteps == [present |-> FALSE, idx |-> <<>>]

\* No checkpoint file under the log directory.
NoFile == [present |-> FALSE]

\* What the caller of run has got back: nothing yet.
NoReturn ==
    [status |-> "none", function_result |-> NoResult, warnings |-> NoTable]

\* The arguments of a call of run, before any call.
NoArgs ==
    [run_tags |-> {}, ignore_tags |-> {}, pipeline_steps |-> NoSteps,
     resume |-> FALSE, start_idx |-> -1,
     ignore_errors |-> FALSE, ignore_exceptions |-> FALSE]

\* An api_kwargs dict with no key ("" and FALSE: the key is absent).
EmptyKwargs ==
    [code |-> "", cmd |-> "", temp_path |-> "", has_config |-> FALSE,
     config |-> <<>>]

\* def run_sex(..., api_kwargs={}, ...), run_scamp, run_psfex: the dicts the
\* defaults are bound to; def __init__(..., steps=[], ...): the list
NoDefaults ==
    [run_sex |-> EmptyKwargs, run_scamp |-> EmptyKwargs,
     run_psfex |-> EmptyKwargs, steps |-> <<>>]

\* The paths handed to the constructor; the engine never changes them.
Paths == [temp |-> "temp", log |-> "log"]

VARIABLES
    steps,          \* Pipeline.steps: sequence of PipelineStep records
    next_id,        \* Pipeline.next_id
    run_steps,      \* Pipeline.run_steps: positions (in steps) selected by the run
    run_step_idx,   \* Pipeline.run_step_idx: the run cursor, 0-based into run_steps
    run_warnings,   \* Pipeline.run_warnings / all_warnings of run
    paths,          \* Pipeline.paths
    ckpt,           \* the file <log>/pipeline.p: NoFile or a snapshot
    state,          \* idle, running, completed, halted-on-error, halted-on-exception
    args,           \* arguments of the current (or last) call
    ret,            \* what the current (or last) call reported to its caller
    calls,          \* history: positions of the steps invoked by the current run
    pre,            \* history: steps as they were when the current run started
    start,          \* history: the cursor the current run started from
    last,           \* history: how the last finished run ended (in SpecCkpt:
                    \* the snapshot handed to the last write)
    prev,           \* history: how the run before the current one ended (in
                    \* SpecCkpt: the file that was there before the write)
    runs,           \* history: number of calls of run so far
    defaults,       \* the objects the default arguments are bound to (one
                    \* per function, made when the class is defined): the
                    \* api_kwargs dict of each runner, the steps list of
                    \* Pipeline.__init__
    pipes,          \* the Pipeline instances made so far, where several are
                    \* told apart (SpecTwo)
    exists          \* the directories there are (SpecUtils)

vars == <<steps, next_id, run_steps, run_step_idx, run_warnings, paths, ckpt,
          state, args, ret, calls, pre, start, last, prev, runs, defaults,
          pipes, exists>>


\* ------------------------------------------------------------ PipelineStep
\* The keyword arguments are not kept.
PipelineStepNoKwargs(func, step_id, tags, func_kwargs) ==
    [func |-> func, step_id |-> step_id, tags |-> tags,
     func_kwargs |-> [var1 |-> 0, var2 |-> 0], results |-> NoResult]

\* The attributes PipelineStep.__init__ sets, and (spec) the stored result.
PipelineStep(func, step_id, tags, func_kwargs) ==
    [func |-> func, step_id |-> step_id, tags |-> tags,
     func_kwargs |-> func_kwargs, results |-> NoResult]

\* The (callable, keyword arguments) pairs the tests register, and a runner
\* whose result carries a warnings table.
StepInputs ==
    { [func |-> "test_func1", tags |-> {"A"},
       func_kwargs |-> [var1 |-> 3, var2 |-> 4]],
      [func |-> "test_func2", tags |-> {"B"},
       func_kwargs |-> [var1 |-> 1, var2 |-> 0]],
      [func |-> "test_func3", tags |-> {},
       func_kwargs |-> [var1 |-> 1, var2 |-> 0]],
      [func |-> "run_sex", tags |-> {"A", "B"},
       func_kwargs |-> [var1 |-> 0, var2 |-> 0]] }

\* ----------------------------------------------------------- the callables
Returned(r) == [raised |-> FALSE, result |-> r]
Raised == [raised |-> TRUE, result |-> NoResult]

test_func1(nid, step_id, kw) ==
    Returned([NoResult EXCEPT !.status = "success", !.next_id = nid,
                              !.step_id = step_id, !.value = kw.var1 + kw.var2])

test_func2(kw) ==
    IF kw.var2 = 0
    THEN Returned([NoResult EXCEPT !.status = "error", !.error = "Division by 0"])
    ELSE Returned([NoResult EXCEPT !.status = "success",
                                   !.value = kw.var1 \div kw.var2])

test_func3(kw) ==
    IF kw.var2 = 0
    THEN Raised
    ELSE Returned([NoResult EXCEPT !.status = "success",
                                   !.value = kw.var1 \div kw.var2])

\* A runner: the tool's result with the warnings table parsed from its XML log.
RunnerResult(step_id, kw) ==
    Returned([NoResult EXCEPT !.status = "success", !.filename = "img.fits",
                !.warnings = [present |-> TRUE, rows |-> <<[text |-> "w"]>>]])

\* A runner whose tool failed: status 'error', and the warnings of its XML log.
RunnerError(step_id, kw) ==
    Returned([NoResult EXCEPT !.status = "error", !.error = "tool failed",
                !.filename = "cat.fits",
                !.warnings = [present |-> TRUE, rows |-> <<[text |-> "e"]>>]])

\* A runner whose XML log lists no warning: the table is there, with no row.
RunnerQuiet(step_id, kw) ==
    Returned([NoResult EXCEPT !.status = "success", !.filename = "psf.fits",
                !.warnings = [present |-> TRUE, rows |-> <<>>]])

\* result = step.func(self, step.step_id, **step.func_kwargs)
Call(step, nid) ==
    CASE step.func = "test_func1" -> test_func1(nid, step.step_id, step.func_kwargs)
      [] step.func = "test_func2" -> test_func2(step.func_kwargs)
      [] step.func = "test_func3" -> test_func3(step.func_kwargs)
      [] step.func = "run_sex"    -> RunnerResult(step.step_id, step.func_kwargs)
      [] step.func = "run_scamp"  -> RunnerError(step.step_id, step.func_kwargs)
      [] step.func = "run_psfex"  -> RunnerQuiet(step.step_id, step.func_kwargs)
      [] step.func \in {"registers_step", "retags_steps"} ->
             Returned([NoResult EXCEPT !.status = "success"])

\* What a callable does to the pipeline it is handed, while it runs:
\* registers_step calls pipeline.add_step with test_func1 and its own tags (as
\* long as the pipeline has room), retags_steps gives every registered step
\* the tag "B" alone, the other callables leave the pipeline alone.
Effect(step, ss, nid) ==
    CASE step.func = "registers_step" /\ Len(ss) < MaxSteps ->
             [steps |-> Append(ss, PipelineStep("test_func1", nid, step.tags,
                                                [var1 |-> 3, var2 |-> 4])),
              next_id |-> nid + 1]
      [] step.func = "retags_steps" ->
             [steps |-> [i \in 1..Len(ss) |-> [ss[i] EXCEPT !.tags = {"B"}]],
              next_id |-> nid]
      [] OTHER -> [steps |-> ss, next_id |-> nid]

\* ------------------------------------------------------------- Pipeline.run
\* The tags are not consulted: every step is selected.
SelectedAlways(step, run_tags, ignore_tags) == TRUE

\* (spec) a step runs iff run_tags is empty or holds one of its tags, and
\* ignore_tags holds none of its tags.
Selected(step, run_tags, ignore_tags) ==
    /\ (run_tags = {} \/ \E tag \in step.tags : tag \in run_tags)
    /\ ~ \E tag \in step.tags : tag \in ignore_tags

\* The whole step sequence is run whatever list the caller passed.
PipelineStepsIgnored(a, ss) == [i \in 1..Len(ss) |-> i]

\* if pipeline_steps is None: pipeline_steps = self.steps
\* (the steps of the list are given as their positions in self.steps)
PipelineSteps(a, ss) ==
    IF a.pipeline_steps.present THEN a.pipeline_steps.idx
    ELSE [i \in 1..Len(ss) |-> i]

\* (spec) the selected steps of pipeline_steps, in the order of that list,
\* from its k-th element on
RECURSIVE SelectSteps(_, _, _, _, _)
SelectSteps(ss, pipeline_steps, k, run_tags, ignore_tags) ==
    IF k > Len(pipeline_steps) THEN <<>>
    ELSE (IF Selected(ss[pipeline_steps[k]], run_tags, ignore_tags)
          THEN <<pipeline_steps[k]>> ELSE <<>>)
         \o SelectSteps(ss, pipeline_steps, k + 1, run_tags, ignore_tags)

\* (spec) the rows of the result's warnings table, tagged with the filename
\* and the step id, stacked under the accumulated warnings.
TagRows(rows, filename, step_id) ==
    [i \in 1..Len(rows) |->
        [text |-> rows[i].text, filename |-> filename, step |-> step_id]]

\* The status is tested first: the warnings of a failed step are left out.
AddWarningsUnlessError(all_warnings, result, step) ==
    IF result.warnings.present /\ result.status # "error"
    THEN [present |-> TRUE,
          rows |-> all_warnings.rows
                   \o TagRows(result.warnings.rows, result.filename, step.step_id)]
    ELSE all_warnings

\* The table of the last result replaces the accumulated one.
AddWarningsNoStack(all_warnings, result, step) ==
    IF result.warnings.present
    THEN [present |-> TRUE,
          rows |-> TagRows(result.warnings.rows, result.filename, step.step_id)]
    ELSE all_warnings

\* if 'warnings' in result: ... all_warnings = vstack([all_warnings, warnings])
AddWarnings(all_warnings, result, step) ==
    IF result.warnings.present
    THEN [present |-> TRUE,
          rows |-> all_warnings.rows
                   \o TagRows(result.warnings.rows, result.filename, step.step_id)]
    ELSE all_warnings

\* The test is turned round: a success counts as an error.
IsErrorSuccess(result) == result.status = "success"

\* A misspelt status: no result counts as an error.
IsErrorMisspelt(result) == result.status = "failure"

\* if result['status'] == 'error'
IsError(result) == result.status = "error"

\* (spec) the report of a run halted on an error: the failing step's result
\* and the warnings so far
ErrorReturn(result, all_warnings) ==
    [status |-> "error", function_result |-> result, warnings |-> all_warnings]

\* the dict run returns after the loop
SuccessReturn(all_warnings) ==
    [status |-> "success", function_result |-> NoResult, warnings |-> all_warnings]

\* (spec) a fault of the callable reaches the caller of run
FaultRaised(all_warnings) ==
    [status |-> "exception", function_result |-> NoResult, warnings |-> all_warnings]

\* (spec) the result stored for a step whose fault is tolerated
ExceptionResult ==
    [NoResult EXCEPT !.status = "error", !.error = "exception"]

\* The next-id counter is left out of the file.
SnapshotNoCounter(s, nid, rs, idx, w, p) ==
    [present |-> TRUE, steps |-> s, next_id |-> 0, run_steps |-> rs,
     run_step_idx |-> idx, run_warnings |-> w, paths |-> p]

\* (spec) the serialized pipeline
Snapshot(s, nid, rs, idx, w, p) ==
    [present |-> TRUE, steps |-> s, next_id |-> nid, run_steps |-> rs,
     run_step_idx |-> idx, run_warnings |-> w, paths |-> p]

\* The write is left out: the file stays as it was.
CheckpointSkipped(file, snapshot) == file
CheckpointNotOnError(file, snapshot) == file
CheckpointAfterRaise(file, snapshot) == file

\* (spec) the checkpoint file after a step has completed
CheckpointAfterStep(file, snapshot) == snapshot

\* (spec) the checkpoint file when a structured error halts the run
CheckpointOnError(file, snapshot) == snapshot

\* (spec) the checkpoint file when a fault is about to reach the caller
CheckpointOnFault(file, snapshot) == snapshot

\* The tolerance of errors is not consulted.
HaltsOnAnyError(out, ignore_errors) ==
    ~out.raised /\ out.result.status = "error"

\* (spec) a tolerated fault does not halt; a returned error halts unless
\* errors are tolerated
Halts(out, ignore_errors) ==
    ~out.raised /\ IsError(out.result) /\ ~ignore_errors

\* A tolerated fault stores nothing.
StoredResultOfReturn(out) == IF out.raised THEN NoResult ELSE out.result

\* (spec) what is stored on the step: the raw return value, or the error
\* record of a tolerated fault
StoredResult(out) == IF out.raised THEN ExceptionResult ELSE out.result

\* The step is built anew around the result, without its tags.
StoreResultNewStep(ss, pos, result) ==
    [ss EXCEPT ![pos] = [PipelineStep(ss[pos].func, ss[pos].step_id, {},
                                      ss[pos].func_kwargs)
                           EXCEPT !.results = result]]

\* (spec) step.results = result: nothing else of the step is touched
StoreResult(ss, pos, result) == [ss EXCEPT ![pos].results = result]

\* The selection is made anew from the steps as they are now.
LoopStepsSelectedAgain(rs, ss, a) ==
    [present |-> TRUE,
     idx |-> SelectSteps(ss, PipelineSteps(a, ss), 1, a.run_tags, a.ignore_tags)]

\* for step in steps: the loop goes over the list the comprehension built
\* before the first iteration, whatever self.steps has become
LoopSteps(rs, ss, a) == rs

\* (spec) the selection a call of run works on
RunSelection(a) ==
    IF a.resume /\ run_steps.present
    THEN run_steps
    ELSE [present |-> TRUE,
          idx |-> SelectSteps(steps, PipelineSteps(a, steps), 1,
                              a.run_tags, a.ignore_tags)]

\* The starting index is not consulted.
RunCursorNoStart(a) == IF a.resume THEN run_step_idx ELSE 0

\* A resumed run starts over.
RunCursorRestart(a) == IF a.start_idx >= 0 THEN a.start_idx ELSE 0

\* A resumed run starts after the step at the saved cursor.
RunCursorSkip(a) ==
    IF a.start_idx >= 0 THEN a.start_idx
    ELSE IF a.resume THEN run_step_idx + 1
    ELSE 0

\* (spec) the cursor a call of run starts from
RunCursor(a) ==
    IF a.start_idx >= 0 THEN a.start_idx
    ELSE IF a.resume THEN run_step_idx
    ELSE 0

\* How a run that has not happened ended.
NoRun == [state |-> "idle", start |-> 0, halted_at |-> 0, committed |-> {}]

\* The pipeline a run starts from, before any run.
NoPre == [steps |-> <<>>, from_ckpt |-> FALSE]

\* The caller has moved on: nothing of the last call of run is left.
CallOver ==
    /\ state' = "idle"
    /\ args' = NoArgs
    /\ ret' = NoReturn
    /\ calls' = <<>>
    /\ pre' = NoPre
    /\ start' = 0

Range(f) == {f[i] : i \in DOMAIN f}

\* The in-memory pipeline is the one the checkpoint file holds.
IsCheckpoint ==
    /\ ckpt.present
    /\ ckpt = Snapshot(steps, next_id, run_steps, run_step_idx, run_warnings,
                       paths)

Ended(st, from, pos, done) ==
    [state |-> st, start |-> from, halted_at |-> pos, committed |-> done]

Init ==
    /\ steps = <<>>
    /\ next_id = 0
    /\ run_steps = NoSteps
    /\ run_step_idx = 0
    /\ run_warnings = NoTable
    /\ paths = Paths
    /\ ckpt = NoFile
    /\ state = "idle"
    /\ args = NoArgs
    /\ ret = NoReturn
    /\ calls = <<>>
    /\ pre = NoPre
    /\ start = 0
    /\ last = NoRun
    /\ prev = NoRun
    /\ runs = 0
    /\ defaults = NoDefaults
    /\ pipes = <<>>
    /\ exists = {}

\* The functions a step can hold: the callables of the tests and the runners
\* of the class.  Any other value of func is a string.
Callables ==
    { "test_func1", "test_func2", "test_func3", "registers_step",
      "retags_steps", "run_sex", "run_scamp", "run_swarp", "run_psfex" }

\* isinstance(func, string_types)
IsString(func) == func \notin Callables

\* (spec) api.codes: the names of the tools, as the runners pass them to
\* api.Astromatic (api_kwargs['code'])
Codes == {"SExtractor", "SCAMP", "SWarp", "PSFEx"}

DispatchOk(func) == [raised |-> FALSE, func |-> func]
DispatchError == [raised |-> TRUE, func |-> ""]

\* A string that names no tool is kept as the step's function.
DispatchLenient(func) ==
    IF IsString(func) /\ func \in Codes
    THEN CASE func = "SExtractor" -> DispatchOk("run_sex")
           [] func = "SCAMP"      -> DispatchOk("run_scamp")
           [] func = "PSFEx"      -> DispatchOk("run_psfex")
           [] func = "SWARP"      -> DispatchOk("run_swarp")
           [] OTHER               -> DispatchError
    ELSE DispatchOk(func)

\* the first statement of add_step: a string is replaced by the runner of
\* the tool it names, or PipelineError is raised
Dispatch(func) ==
    IF IsString(func)
    THEN IF func \in Codes
         THEN CASE func = "SExtractor" -> DispatchOk("run_sex")
                [] func = "SCAMP"      -> DispatchOk("run_scamp")
                [] func = "PSFEx"      -> DispatchOk("run_psfex")
                [] func = "SWARP"      -> DispatchOk("run_swarp")
                [] OTHER               -> DispatchError
         ELSE DispatchError
    ELSE DispatchOk(func)

\* What reaches the caller of add_step when it raises.
PipelineError ==
    [status |-> "PipelineError", function_result |-> NoResult,
     warnings |-> NoTable]

add_step(func, tags, kwargs) ==
    /\ state # "running"
    /\ Len(steps) < MaxSteps
    /\ IF Dispatch(func).raised
       THEN /\ state' = "idle"
            /\ args' = NoArgs
            /\ ret' = PipelineError
            /\ calls' = <<>>
            /\ pre' = NoPre
            /\ start' = 0
            /\ UNCHANGED <<steps, next_id>>
       ELSE /\ next_id' = next_id + 1
            /\ steps' = Append(steps, PipelineStep(Dispatch(func).func, next_id,
                                                   tags, kwargs))
            /\ CallOver
    /\ UNCHANGED <<run_steps, run_step_idx, run_warnings, paths, ckpt,
                   last, prev, runs, defaults,
                   pipes, exists>>

\* run(...) up to the first iteration of the loop
RunStart(a) ==
    LET rs  == RunSelection(a)
        idx == RunCursor(a)
    IN  /\ state # "running"
        /\ runs < MaxRuns
        /\ \A i \in 1..Len(a.pipeline_steps.idx) :
              a.pipeline_steps.idx[i] <= Len(steps)
        /\ runs' = runs + 1
        /\ run_steps' = rs
        /\ run_step_idx' = idx
        /\ run_warnings' = NoTable
        /\ args' = a
        /\ calls' = <<>>
        /\ pre' = [steps |-> steps, from_ckpt |-> IsCheckpoint]
        /\ start' = idx
        /\ prev' = last
        /\ IF idx >= Len(rs.idx)
           THEN /\ state' = "completed"
                /\ ret' = SuccessReturn(NoTable)
                /\ last' = Ended("completed", idx, 0, {})
           ELSE /\ state' = "running"
                /\ ret' = NoReturn
                /\ last' = last
        /\ UNCHANGED <<steps, next_id, paths, ckpt, defaults,
                   pipes, exists>>

\* one iteration of the loop of run, and the return when it was the last one
RunStep ==
    /\ state = "running"
    /\ LET pos  == LoopSteps(run_steps, steps, args).idx[run_step_idx + 1]
           step == steps[pos]
           out  == Call(step, next_id)
           eff  == Effect(step, steps, next_id)
       IN  /\ calls' = Append(calls, pos)
           /\ IF out.raised /\ ~args.ignore_exceptions
              THEN /\ ckpt' = CheckpointOnFault(ckpt,
                                Snapshot(steps, next_id, run_steps,
                                         run_step_idx, run_warnings, paths))
                   /\ state' = "halted-on-exception"
                   /\ ret' = FaultRaised(run_warnings)
                   /\ last' = Ended("halted-on-exception", start, pos,
                                    Range(calls))
                   /\ UNCHANGED <<steps, next_id, run_step_idx, run_warnings>>
              ELSE LET result == StoredResult(out)
                       s2     == StoreResult(eff.steps, pos, result)
                       w2     == AddWarnings(run_warnings, result, step)
                   IN  /\ steps' = s2
                       /\ next_id' = eff.next_id
                       /\ run_warnings' = w2
                       /\ IF Halts(out, args.ignore_errors)
                          THEN /\ run_step_idx' = run_step_idx
                               /\ ckpt' = CheckpointOnError(ckpt,
                                            Snapshot(s2, eff.next_id, run_steps,
                                                     run_step_idx, w2, paths))
                               /\ state' = "halted-on-error"
                               /\ ret' = ErrorReturn(result, w2)
                               /\ last' = Ended("halted-on-error", start, pos,
                                                Range(calls))
                          ELSE /\ run_step_idx' = run_step_idx + 1
                               /\ ckpt' = CheckpointAfterStep(ckpt,
                                            Snapshot(s2, eff.next_id, run_steps,
                                                     run_step_idx + 1, w2,
                                                     paths))
                               /\ IF run_step_idx + 1 >=
                                        Len(LoopSteps(run_steps, s2, args).idx)
                                  THEN /\ state' = "completed"
                                       /\ ret' = SuccessReturn(w2)
                                       /\ last' = Ended("completed", start, 0,
                                                        Range(calls) \cup {pos})
                                  ELSE /\ state' = "running"
                                       /\ ret' = NoReturn
                                       /\ last' = last
    /\ UNCHANGED <<run_steps, paths, args, pre, start, prev, runs, defaults,
                   pipes, exists>>

\* (tests) pipe = dill.load(open(<log>/pipeline.p))
Load ==
    /\ state # "running"
    /\ ckpt.present
    /\ steps' = ckpt.steps
    /\ next_id' = ckpt.next_id
    /\ run_steps' = ckpt.run_steps
    /\ run_step_idx' = ckpt.run_step_idx
    /\ run_warnings' = ckpt.run_warnings
    /\ paths' = ckpt.paths
    /\ CallOver
    /\ UNCHANGED <<ckpt, last, prev, runs, defaults,
                   pipes, exists>>

\* (tests) for step in pipe.steps: step.results = None
ResetResults ==
    /\ state # "running"
    /\ steps' = [i \in 1..Len(steps) |-> [steps[i] EXCEPT !.results = NoResult]]
    /\ CallOver
    /\ UNCHANGED <<next_id, run_steps, run_step_idx, run_warnings, paths, ckpt,
                   last, prev, runs, defaults,
                   pipes, exists>>

Flags == [ignore_errors : BOOLEAN, ignore_exceptions : BOOLEAN]

RunArg(rt, it, resume, s, f) ==
    [run_tags |-> rt, ignore_tags |-> it, pipeline_steps |-> NoSteps,
     resume |-> resume, start_idx |-> s,
     ignore_errors |-> f.ignore_errors,
     ignore_exceptions |-> f.ignore_exceptions]

\* The tag filters of the engine's runs: none, run_tags only, ignore_tags
\* only, both.
Filters ==
    { <<{}, {}>>, <<{"A"}, {}>>, <<{}, {"B"}>>, <<{"B"}, {"A"}>> }

\* The calls of run: a fresh run under a tag filter, a resumed run, and a
\* run from an explicit starting index.
RunArgs ==
    { RunArg(ft[1], ft[2], FALSE, -1, f) : ft \in Filters, f \in Flags }
    \cup { RunArg({}, {}, TRUE, -1, f) : f \in Flags }
    \cup { RunArg({}, {}, FALSE, s, f) : s \in 0..MaxSteps, f \in Flags }

Next ==
    \/ \E i \in StepInputs : add_step(i.func, i.tags, i.func_kwargs)
    \/ \E a \in RunArgs : RunStart(a)
    \/ RunStep
    \/ Load
    \/ ResetResults

Spec == Init /\ [][Next]_vars

\* ------------------------------------------------- runs that are carried on
\* run is a synchronous loop: once it is called, and as long as each callable
\* returns or faults, the next iteration is taken.
LiveArgs == { RunArg({}, {}, r, -1, f) : r \in BOOLEAN, f \in Flags }

NextLive ==
    \/ \E i \in StepInputs : add_step(i.func, i.tags, i.func_kwargs)
    \/ \E a \in LiveArgs : RunStart(a)
    \/ RunStep
    \/ Load

SpecLive == Init /\ [][NextLive]_vars /\ WF_vars(RunStep)

\* ------------------------------- runs whose callables change the pipeline
\* Steps that register a step or change tags while they run, and a plain one.
EffectInputs ==
    { [func |-> "test_func1", tags |-> {"A"},
       func_kwargs |-> [var1 |-> 3, var2 |-> 4]],
      [func |-> "registers_step", tags |-> {"A"},
       func_kwargs |-> [var1 |-> 0, var2 |-> 0]],
      [func |-> "retags_steps", tags |-> {"A"},
       func_kwargs |-> [var1 |-> 0, var2 |-> 0]] }

EffectArgs ==
    { RunArg(ft[1], ft[2], FALSE, -1,
             [ignore_errors |-> FALSE, ignore_exceptions |-> FALSE]) :
        ft \in { <<{}, {}>>, <<{"A"}, {}>>, <<{}, {"B"}>> } }

NextEffects ==
    \/ \E i \in EffectInputs : add_step(i.func, i.tags, i.func_kwargs)
    \/ \E a \in EffectArgs : RunStart(a)
    \/ RunStep

SpecEffects == Init /\ [][NextEffects]_vars

\* ------------------------------------------ runs that report warnings, and
\* runs over an explicit step list
\* Steps whose results carry a warnings table (with rows, with an error, with
\* no row) and a step whose result carries none.
ReportInputs ==
    { [func |-> "test_func1", tags |-> {"A"},
       func_kwargs |-> [var1 |-> 3, var2 |-> 4]],
      [func |-> "run_sex", tags |-> {"A", "B"},
       func_kwargs |-> [var1 |-> 0, var2 |-> 0]],
      [func |-> "run_scamp", tags |-> {"B"},
       func_kwargs |-> [var1 |-> 0, var2 |-> 0]],
      [func |-> "run_psfex", tags |-> {},
       func_kwargs |-> [var1 |-> 0, var2 |-> 0]] }

\* The step lists a caller passes to run: one or two steps of the pipeline,
\* in any order.
StepLists ==
    {<<i>> : i \in 1..MaxSteps} \cup {<<i, j>> : i, j \in 1..MaxSteps}

\* run(run_tags, pipeline_steps=[...]) with the steps at the positions l
RunList(rt, l, f) ==
    [RunArg(rt, {}, FALSE, -1, f) EXCEPT
        !.pipeline_steps = [present |-> TRUE, idx |-> l]]

\* None of these steps raises: only the tolerance of errors matters.
ReportFlags == [ignore_errors : BOOLEAN, ignore_exceptions : {FALSE}]

ReportArgs ==
    { RunArg(rt, {}, FALSE, -1, f) : rt \in {{}, {"A"}}, f \in ReportFlags }
    \cup { RunList(rt, l, f) :
               rt \in {{}, {"A"}}, l \in StepLists, f \in ReportFlags }

NextReport ==
    \/ \E i \in ReportInputs : add_step(i.func, i.tags, i.func_kwargs)
    \/ \E a \in ReportArgs : RunStart(a)
    \/ RunStep

SpecReport == Init /\ [][NextReport]_vars

\* --------------------------------------- the step registry of pipeline.py
\* The steps a caller hands to the constructor: none, or one step built with
\* an id of the caller's choice.
SuppliedSteps ==
    { <<>> }
    \cup { <<PipelineStep("test_func1", id, {"A"}, [var1 |-> 3, var2 |-> 4])>> :
              id \in 0..MaxSteps }

\* Pipeline.__init__: self.steps = steps; self.next_id = 0
InitSteps ==
    /\ steps \in SuppliedSteps
    /\ next_id = 0
    /\ run_steps = NoSteps
    /\ run_step_idx = 0
    /\ run_warnings = NoTable
    /\ paths = Paths
    /\ ckpt = NoFile
    /\ state = "idle"
    /\ args = NoArgs
    /\ ret = NoReturn
    /\ calls = <<>>
    /\ pre = NoPre
    /\ start = 0
    /\ last = NoRun
    /\ prev = NoRun
    /\ runs = 0
    /\ defaults = NoDefaults
    /\ pipes = <<>>
    /\ exists = {}

\* The names of the four tools as the runners name them, a name in capitals,
\* and a string that names no tool.
StringInputs == Codes \cup {"SWARP", "not a code"}

\* What callers pass to add_step: a callable or a string, with tags and
\* keyword arguments.
AddInputs ==
    StepInputs
    \cup { [func |-> f, tags |-> t, func_kwargs |-> [var1 |-> 0, var2 |-> 0]] :
              f \in StringInputs, t \in {{}, {"A"}} }

NextAdd ==
    \E i \in AddInputs : add_step(i.func, i.tags, i.func_kwargs)

SpecAdd == InitSteps /\ [][NextAdd]_vars

\* ------------------------------------------------ the command builder (spec)
\* api.Astromatic.build_cmd and run_frames, from spec.md section 4.1 and the
\* commands tests/test_api.py expects.  A command is a sequence of tokens; a
\* token is a word, a flag '-KEY', or a file name 'name.ext', 'name.ext[frame]'
\* or 'name-part.ext'.  A Python boolean is the value [t |-> "bool"] with its
\* str() as s.
Word(w) ==
    [t |-> "word", s |-> w, ext |-> "", frame |-> 0, part |-> 0, dir |-> ""]
Flag(key) ==
    [t |-> "flag", s |-> key, ext |-> "", frame |-> 0, part |-> 0, dir |-> ""]
File(name, ext) ==
    [t |-> "file", s |-> name, ext |-> ext, frame |-> 0, part |-> 0,
     dir |-> ""]
Bool(b) ==
    [t |-> "bool", s |-> IF b THEN "True" ELSE "False", ext |-> "", frame |-> 0,
     part |-> 0, dir |-> ""]
None ==
    [t |-> "none", s |-> "", ext |-> "", frame |-> 0, part |-> 0, dir |-> ""]

\* os.path.join(dir, file)
InDir(dir, file) == [file EXCEPT !.dir = dir]

\* api.codes: the executable of each tool
Executable ==
    [c \in Codes |->
        CASE c = "SExtractor" -> "sex"
          [] c = "SCAMP"      -> "scamp"
          [] c = "SWarp"      -> "swarp"
          [] c = "PSFEx"      -> "psfex"]

\* The boolean is written as Python prints it.
ValueTokenStr(value) == IF value.t = "bool" THEN Word(value.s) ELSE value

\* a boolean is written Y or N, any other value as it is
ValueToken(value) ==
    IF value.t = "bool"
    THEN Word(IF value.s = "True" THEN "Y" ELSE "N")
    ELSE value

\* The key is taken out and put back at the end.
SetItemMoved(config, key, value) ==
    Append(SelectSeq(config, LAMBDA e : e.key # key),
           [key |-> key, value |-> value])

\* config[key] = value on an ordered mapping: in place when the key is there,
\* at the end when it is not
SetItem(config, key, value) ==
    IF \E i \in 1..Len(config) : config[i].key = key
    THEN [i \in 1..Len(config) |->
             IF config[i].key = key THEN [key |-> key, value |-> value]
             ELSE config[i]]
    ELSE Append(config, [key |-> key, value |-> value])

\* The keys of the tests in alphabetical order, and the place of a key in it.
SortedKeys ==
    << "CATALOG_NAME", "CATALOG_TYPE", "FILTER", "FLAG_IMAGE",
       "PARAMETERS_NAME", "WEIGHT_IMAGE", "XML_NAME" >>

Rank(key) == CHOOSE r \in 1..Len(SortedKeys) : SortedKeys[r] = key

\* The entries are written in the alphabetical order of their keys.
RECURSIVE OptionsSorted(_)
OptionsSorted(config) ==
    IF config = <<>> THEN <<>>
    ELSE LET m == CHOOSE i \in 1..Len(config) :
                      \A j \in 1..Len(config) :
                          Rank(config[i].key) <= Rank(config[j].key)
         IN  <<Flag(config[m].key), ValueToken(config[m].value)>>
             \o OptionsSorted([i \in 1..(Len(config) - 1) |->
                                  IF i < m THEN config[i] ELSE config[i + 1]])

\* '-KEY value' for each entry of the mapping, in the mapping's order
RECURSIVE Options(_)
Options(config) ==
    IF config = <<>> THEN <<>>
    ELSE <<Flag(Head(config).key), ValueToken(Head(config).value)>>
         \o Options(Tail(config))

\* The mapping the command is built from: with a parameter list and no
\* config file the parameters are written to <temp>/<tool>.param and
\* PARAMETERS_NAME names that file.
ParamFile(a) == InDir(a.temp_path, File(Executable[a.code], "param"))

BuildConfig(a) ==
    IF a.params /\ a.config_file = None
    THEN SetItem(a.config, "PARAMETERS_NAME", ParamFile(a))
    ELSE a.config

\* The parameter file the builder writes: one parameter name per line.
NoParamFile == [present |-> FALSE, name |-> None, lines |-> <<>>]

WrittenParams(a) ==
    IF a.params /\ a.config_file = None
    THEN [present |-> TRUE, name |-> ParamFile(a), lines |-> a.param_names]
    ELSE NoParamFile

\* build_cmd: executable, files, -c config_file, options
BuildCmd(a) ==
    <<IF a.cmd = None THEN Word(Executable[a.code]) ELSE a.cmd>>
    \o a.filenames
    \o (IF a.config_file = None THEN <<>> ELSE <<Flag("c"), a.config_file>>)
    \o Options(BuildConfig(a))

\* The name of a FITS file for one frame: name.fits[frame]
AddFrame(value, frame) ==
    IF value.t = "file" /\ value.ext = "fits"
    THEN [value EXCEPT !.frame = frame]
    ELSE value

\* The entries of the mapping for one frame: FITS file names get the frame,
\* the XML log gets '-frame' before its extension.
FrameConfig(config, frame) ==
    [i \in 1..Len(config) |->
        [key |-> config[i].key,
         value |-> IF config[i].key = "XML_NAME"
                   THEN [config[i].value EXCEPT !.part = frame]
                   ELSE AddFrame(config[i].value, frame)]]

\* run_frames: one command for each frame
RunFrames(a) ==
    [k \in 1..Len(a.frames) |->
        BuildCmd([a EXCEPT
            !.filenames = [i \in 1..Len(a.filenames) |->
                              AddFrame(a.filenames[i], a.frames[k])],
            !.config = FrameConfig(a.config, a.frames[k])])]

\* The entries of the mappings of the tests.
ConfigEntries ==
    { [key |-> "CATALOG_NAME", value |-> File("test", "fits")],
      [key |-> "CATALOG_NAME", value |-> File("img", "cat")],
      [key |-> "CATALOG_TYPE", value |-> Word("FITS_LDAC")],
      [key |-> "PARAMETERS_NAME", value |-> File("default", "path")],
      [key |-> "FILTER", value |-> Bool(FALSE)],
      [key |-> "FILTER", value |-> Bool(TRUE)],
      [key |-> "WEIGHT_IMAGE", value |-> File("test.wtmap", "fits")],
      [key |-> "FLAG_IMAGE", value |-> File("test.dqmask", "fits")],
      [key |-> "XML_NAME", value |-> File("0.sex.log", "xml")] }

\* The ordered mappings of at most MaxConfig entries: a key occurs once.
Configs ==
    UNION { { c \in [1..n -> ConfigEntries] :
                \A i, j \in 1..n : i # j => c[i].key # c[j].key } :
            n \in 0..MaxConfig }

FileLists ==
    { <<File("test", "fits")>>,
      <<File("cat1", "fits"), File("cat2", "fits")>>,
      <<File("cat2", "fits"), File("cat1", "fits")>> }

\* The frames a caller of run_frames selects; build_cmd has none.
FrameLists == {<<>>, <<1>>, <<2>>, <<2, 1>>}

\* The arguments of build_cmd and of run_frames.
\* The catalog parameter lists of the tests.
ParamLists ==
    { <<"X_WORLD">>, <<"X_WORLD", "Y_WORLD">>, <<"Y_WORLD", "X_WORLD">> }

\* The arguments of build_cmd and of run_frames; params tells whether a
\* parameter list is given.
CmdArgs ==
    { a \in [code : Codes, cmd : {None, File("path/to/sex", "")},
             filenames : FileLists,
             config_file : {None, File("path/to/config/file", "")},
             config : Configs, params : BOOLEAN,
             param_names : ParamLists \cup {<<>>}, temp_path : {Paths.temp},
             frames : FrameLists] :
        a.params <=> a.param_names # <<>> }

\* A call of the builder is about to be made with some arguments.
InitCmd ==
    /\ args \in CmdArgs
    /\ ret = NoReturn
    /\ steps = <<>>
    /\ next_id = 0
    /\ run_steps = NoSteps
    /\ run_step_idx = 0
    /\ run_warnings = NoTable
    /\ paths = Paths
    /\ ckpt = NoFile
    /\ state = "idle"
    /\ calls = <<>>
    /\ pre = NoPre
    /\ start = 0
    /\ last = NoRun
    /\ prev = NoRun
    /\ runs = 0
    /\ defaults = NoDefaults
    /\ pipes = <<>>
    /\ exists = {}

build_cmd ==
    /\ ret = NoReturn
    /\ args.frames = <<>>
    /\ ret' = [status |-> "built", cmds |-> <<BuildCmd(args)>>,
               param_file |-> WrittenParams(args)]
    /\ UNCHANGED <<steps, next_id, run_steps, run_step_idx, run_warnings,
                   paths, ckpt, state, args, calls, pre, start, last, prev,
                   runs, defaults,
                   pipes, exists>>

run_frames ==
    /\ ret = NoReturn
    /\ args.frames # <<>>
    /\ ret' = [status |-> "run", cmds |-> RunFrames(args),
               param_file |-> WrittenParams(args)]
    /\ UNCHANGED <<steps, next_id, run_steps, run_step_idx, run_warnings,
                   paths, ckpt, state, args, calls, pre, start, last, prev,
                   runs, defaults,
                   pipes, exists>>

NextCmd ==
    \/ build_cmd
    \/ run_frames

SpecCmd == InitCmd /\ [][NextCmd]_vars

\* ------------------------------------- Pipeline.run of pipeline.py, as written
\* The attributes Pipeline.__init__ sets and the methods of the class.
PipelineAttributes ==
    { "idx", "idx_connect_str", "img_path", "temp_path", "cat_path",
      "result_path", "resamp_path", "stack_path", "build_paths",
      "default_kwargs", "config_path", "steps", "next_id", "name", "run_date",
      "log_path", "run_sex", "run_scamp", "run_swarp", "run_psfex",
      "run_swarp_old", "add_step", "run" }

\* Evaluating the condition of the comprehension for one step reads self.tags
\* whatever run_tags is: `len(run_tags) == 0 or any(... self.tags)` yields
\* True without reading it only to go on to `not any(... self.tags)`.
FilterRaises(pipeline_steps) ==
    pipeline_steps # <<>> /\ "tags" \notin PipelineAttributes

\* What reaches the caller when the comprehension raises.
AttributeError ==
    [status |-> "AttributeError", function_result |-> NoResult,
     warnings |-> NoTable]

\* run(run_tags, ignore_tags) with pipeline_steps = self.steps.  When the
\* comprehension does not raise the step list is empty, the loop has nothing
\* to iterate over and run returns the success dict.
run(run_tags, ignore_tags) ==
    /\ state # "running"
    /\ args' = [NoArgs EXCEPT !.run_tags = run_tags,
                              !.ignore_tags = ignore_tags]
    /\ calls' = <<>>
    /\ pre' = [steps |-> steps, from_ckpt |-> FALSE]
    /\ start' = 0
    /\ IF FilterRaises(steps)
       THEN /\ state' = "halted-on-exception"
            /\ ret' = AttributeError
       ELSE /\ state' = "completed"
            /\ ret' = SuccessReturn(NoTable)
    /\ UNCHANGED <<steps, next_id, run_steps, run_step_idx, run_warnings,
                   paths, ckpt, last, prev, runs, defaults,
                   pipes, exists>>

NextSrc ==
    \/ \E i \in StepInputs : add_step(i.func, i.tags, i.func_kwargs)
    \/ \E rt \in SUBSET Tags, it \in SUBSET Tags : run(rt, it)

SpecSrc == Init /\ [][NextSrc]_vars

\* --------------------------------------- several pipelines (pipeline.py)
\* The steps of the k-th instance: self.steps is the list the constructor was
\* handed, and that is the default's list when the caller handed none.
StepsOf(pp, dd, k) == IF pp[k].shared THEN dd.steps ELSE pp[k].steps

\* Pipeline(...): self.steps = steps; self.next_id = 0 (94-95), with the
\* steps argument given (a new empty list of the caller) or left out.
NewPipeline(given) ==
    /\ Len(pipes) < MaxPipes
    /\ pipes' = Append(pipes, [shared |-> ~given, steps |-> <<>>, next_id |-> 0])
    /\ UNCHANGED <<steps, next_id, run_steps, run_step_idx, run_warnings,
                   paths, ckpt, state, args, ret, calls, pre, start, last,
                   prev, runs, defaults, exists>>

\* pipes[k].add_step(func, tags, **kwargs) (428-451)
add_step_to(k, func, tags, kwargs) ==
    /\ k <= Len(pipes)
    /\ Len(StepsOf(pipes, defaults, k)) < MaxSteps
    /\ ~Dispatch(func).raised
    /\ LET step == PipelineStep(Dispatch(func).func, pipes[k].next_id, tags,
                                kwargs)
       IN  IF pipes[k].shared
           THEN /\ defaults' = [defaults EXCEPT !.steps = Append(@, step)]
                /\ pipes' = [pipes EXCEPT ![k].next_id = @ + 1]
           ELSE /\ defaults' = defaults
                /\ pipes' = [pipes EXCEPT ![k].next_id = @ + 1,
                                          ![k].steps = Append(@, step)]
    /\ UNCHANGED <<steps, next_id, run_steps, run_step_idx, run_warnings,
                   paths, ckpt, state, args, ret, calls, pre, start, last,
                   prev, runs, exists>>

\* The steps registered on the instances.
TwoInputs == {i \in StepInputs : i.func \in {"test_func1", "test_func2"}}

NextTwo ==
    \/ \E given \in BOOLEAN : NewPipeline(given)
    \/ \E k \in 1..MaxPipes, i \in TwoInputs :
           add_step_to(k, i.func, i.tags, i.func_kwargs)

SpecTwo == Init /\ [][NextTwo]_vars

\* ------------------------------------------------ writing the checkpoint
\* (spec) A file on disk: the snapshot it is to hold and how many of the
\* MaxChunks writes that make it up have reached the disk.
Written(snapshot, n) == [present |-> TRUE, data |-> snapshot, written |-> n]

Complete(file) == file.present /\ file.written = MaxChunks

\* (spec) the engine has moved the cursor to idx and opens the file at the
\* fixed path for writing, which leaves it empty
BeginWrite(idx) ==
    /\ state = "idle"
    /\ run_step_idx' = idx
    /\ last' = Snapshot(steps, next_id, run_steps, idx, run_warnings, paths)
    /\ prev' = ckpt
    /\ ckpt' = Written(last', 0)
    /\ state' = "writing"
    /\ UNCHANGED <<steps, next_id, run_steps, run_warnings, paths, args, ret,
                   calls, pre, start, runs, defaults,
                   pipes, exists>>

\* (spec) one more write reaches the disk
WriteChunk ==
    /\ state = "writing"
    /\ ckpt.written < MaxChunks
    /\ ckpt' = [ckpt EXCEPT !.written = @ + 1]
    /\ UNCHANGED <<steps, next_id, run_steps, run_step_idx, run_warnings,
                   paths, state, args, ret, calls, pre, start, last, prev,
                   runs, defaults,
                   pipes, exists>>

\* (spec) the file is closed
Close ==
    /\ state = "writing"
    /\ ckpt.written = MaxChunks
    /\ state' = "idle"
    /\ UNCHANGED <<steps, next_id, run_steps, run_step_idx, run_warnings,
                   paths, ckpt, args, ret, calls, pre, start, last, prev, runs,
                   defaults,
                   pipes, exists>>

\* The process dies at any point of the write; the file stays as it is.
Crash ==
    /\ state = "writing"
    /\ state' = "crashed"
    /\ UNCHANGED <<steps, next_id, run_steps, run_step_idx, run_warnings,
                   paths, ckpt, args, ret, calls, pre, start, last, prev,
                   runs, defaults,
                   pipes, exists>>

\* A new process takes the pipeline up.
Restart ==
    /\ state = "crashed"
    /\ state' = "idle"
    /\ UNCHANGED <<steps, next_id, run_steps, run_step_idx, run_warnings,
                   paths, ckpt, args, ret, calls, pre, start, last, prev,
                   runs, defaults,
                   pipes, exists>>

NextCkpt ==
    \/ \E idx \in 0..MaxSteps : BeginWrite(idx)
    \/ WriteChunk
    \/ Close
    \/ Crash
    \/ Restart

SpecCkpt == Init /\ [][NextCkpt]_vars

\* ----------------------------------- pipelines built from keyword arguments
\* (tests) Pipeline(**kwargs) sets every keyword as an attribute, as given:
\* steps, next_id, run_steps, run_warnings, run_step_idx and any other key.
KwargsSteps ==
    { <<>>, <<PipelineStep("test_func1", 0, {"A"}, [var1 |-> 3, var2 |-> 4])>> }

InitKwargs ==
    /\ steps \in KwargsSteps
    /\ next_id = Len(steps)
    /\ run_steps = NoSteps
    /\ run_step_idx \in 0..MaxSteps
    /\ run_warnings = NoTable
    /\ paths = Paths
    /\ ckpt = NoFile
    /\ state = "idle"
    /\ args = NoArgs
    /\ ret = NoReturn
    /\ calls = <<>>
    /\ pre = NoPre
    /\ start = 0
    /\ last = NoRun
    /\ prev = NoRun
    /\ runs = 0
    /\ defaults = NoDefaults
    /\ pipes = <<>>
    /\ exists = {}

\* Steps are added, the pipeline is run from its cursor, and reloaded.
NextKwargs ==
    \/ \E i \in StepInputs : add_step(i.func, i.tags, i.func_kwargs)
    \/ \E f \in Flags : RunStart(RunArg({}, {}, TRUE, -1, f))
    \/ RunStep
    \/ Load

SpecKwargs == InitKwargs /\ [][NextKwargs]_vars

\* ------------------------- the runners of pipeline.py (107-317), as written
\* The names the module binds (lines 1-21) and the parameters of each runner.
ModuleNames ==
    { "os", "pandas", "np", "create_engine", "subprocess", "copy",
      "OrderedDict", "logging", "string_types", "datetime", "fits",
      "ToyzError", "api", "utils", "logger", "PipelineError", "Pipeline" }

Parameters ==
    [run_sex   |-> {"self", "step_id", "files", "api_kwargs", "frames"},
     run_scamp |-> {"self", "step_id", "catalogs", "api_kwargs", "save_catalog"},
     run_swarp |-> {"self", "step_id", "filenames", "api_kwargs", "frames"},
     run_psfex |-> {"self", "step_id", "catalogs", "api_kwargs"}]

\* Reading a name that is neither a parameter nor bound by the module raises
\* NameError.
Bound(runner, name) == name \in ModuleNames \cup Parameters[runner]

\* The keys of build_paths: the constructor's default is {} (line 25).
BuildPathKeys == {}

HasKey(config, key) == \E i \in 1..Len(config) : config[i].key = key

\* config[key] = value, whether the key is there or not.
SetDefaultAlways(config, key, value) == SetItem(config, key, value)

\* if key not in config: config[key] = value
SetDefault(config, key, value) ==
    IF HasKey(config, key) THEN config ELSE SetItem(config, key, value)

\* The four statements every runner starts with: code, cmd, temp_path, config.
Common(kw, code, key) ==
    LET k1 == IF kw.code = "" THEN [kw EXCEPT !.code = code] ELSE kw
        k2 == IF k1.cmd = "" /\ key \in BuildPathKeys
              THEN [k1 EXCEPT !.cmd = key] ELSE k1
        k3 == IF k2.temp_path = "" THEN [k2 EXCEPT !.temp_path = paths.temp]
              ELSE k2
    IN  IF k3.has_config THEN k3
        ELSE [k3 EXCEPT !.has_config = TRUE, !.config = <<>>]

WithDefault(kw, key, value) ==
    [kw EXCEPT !.config = SetDefault(@, key, value)]

WithItem(kw, key, value) == [kw EXCEPT !.config = SetItem(@, key, value)]

\* files['image'].replace('.fits', '.cat')
Catalog(image) ==
    IF image.ext = "fits" THEN [image EXCEPT !.ext = "cat"] ELSE image

\* The name each runner formats into '{0}.<name>.log.xml' (160, 214, 266, 314).
XmlNames ==
    [run_sex |-> "sex", run_scamp |-> "scamp", run_swarp |-> "scamp",
     run_psfex |-> "psfex"]

\* os.path.join(log_path, '{0}.<name>.log.xml'.format(step_id))
XmlLog(name, step_id) ==
    [t |-> "log", step_id |-> step_id, s |-> name, ext |-> "log.xml",
     dir |-> paths.log]

\* if 'XML_NAME' not in config: config['XML_NAME'] = os.path.join(
\* pipeline.log_path, ...): the first argument is evaluated first.
Xml(runner, kw, step_id) ==
    IF HasKey(kw.config, "XML_NAME") THEN [raised |-> "", kw |-> kw]
    ELSE IF ~Bound(runner, "pipeline") THEN [raised |-> "NameError", kw |-> kw]
    ELSE [raised |-> "",
          kw |-> WithDefault(kw, "XML_NAME", XmlLog(XmlNames[runner], step_id))]

\* IMAGEOUT_NAME is not asked for.
MissingImageOutNever(kw) == FALSE

\* if 'IMAGEOUT_NAME' not in api_kwargs['config'] (260)
MissingImageOut(kw) == ~HasKey(kw.config, "IMAGEOUT_NAME")

\* What a runner leaves when it works on the dict kw: the exception it raises
\* ("" for none), the dict as the call leaves it, and whether the tool is run.
\* frames = <<>> stands for frames=None.
Outcome(a, kw) ==
    LET Run(x, names) ==
            IF x.raised # ""
            THEN [raised |-> x.raised, kw |-> x.kw, invoked |-> FALSE]
            ELSE IF \E n \in names : ~Bound(a.runner, n)
            THEN [raised |-> "NameError", kw |-> x.kw, invoked |-> FALSE]
            ELSE [raised |-> "", kw |-> x.kw, invoked |-> TRUE]
    IN  CASE a.runner = "run_sex" ->
               LET k1 == Common(kw, "SExtractor", "SExtractor")
                   k2 == WithDefault(k1, "CATALOG_NAME", Catalog(a.files.image))
                   k3 == IF a.files.dqmask # None
                         THEN WithDefault(k2, "FLAG_IMAGE", a.files.dqmask)
                         ELSE k2
                   k4 == IF a.files.wtmap # None
                         THEN WithDefault(k3, "WEIGHT_IMAGE", a.files.wtmap)
                         ELSE k3
                   k5 == WithDefault(k4, "WRITE_XML", Word("Y"))
               IN  Run(Xml(a.runner, k5, a.step_id), {"files"})
          [] a.runner = "run_scamp" ->
               LET k1 == Common(kw, "SCAMP", "SCAMP")
                   k2 == IF a.save_catalog # None
                         THEN WithItem(WithItem(k1, "SAVE_REFCATALOG", Word("Y")),
                                       "REFOUT_CATPATH", a.save_catalog)
                         ELSE k1
                   k3 == WithDefault(k2, "WRITE_XML", Word("Y"))
               IN  Run(Xml(a.runner, k3, a.step_id), {"catalogs"})
          [] a.runner = "run_swarp" ->
               LET k1 == Common(kw, "SWarp", "SWARP")
                   k2 == WithDefault(k1, "RESAMPLE_DIR", Word(k1.temp_path))
                   k3 == WithDefault(k2, "WRITE_XML", Word("Y"))
               IN  IF MissingImageOut(k2)
                   THEN [raised |-> "PipelineError", kw |-> k2,
                         invoked |-> FALSE]
                   ELSE Run(Xml(a.runner, k3, a.step_id),
                            IF a.frames = <<>> THEN {"filenames"}
                            ELSE {"files"})
          [] a.runner = "run_psfex" ->
               LET k1 == Common(kw, "PSFEx", "PSFEx")
                   k2 == WithDefault(k1, "WRITE_XML", Word("Y"))
               IN  Run(Xml(a.runner, k2, a.step_id), {"catalogs"})

\* One call of a runner: without api_kwargs it works on the dict its default
\* is bound to, and leaves it changed.
CallRunner(a) ==
    LET kw == IF a.given THEN a.api_kwargs ELSE defaults[a.runner]
        out == Outcome(a, kw)
    IN  /\ args' = a
        /\ ret' = [status |-> IF out.invoked THEN "invoked" ELSE out.raised,
                   kwargs |-> out.kw]
        /\ calls' = IF out.invoked THEN <<a.runner>> ELSE <<>>
        /\ defaults' = IF a.given THEN defaults
                       ELSE [defaults EXCEPT ![a.runner] = out.kw]
        /\ UNCHANGED <<steps, next_id, run_steps, run_step_idx, run_warnings,
                       paths, ckpt, state, pre, start, last, prev, runs,
                       pipes, exists>>

NoCall ==
    [runner |-> "", step_id |-> 0, files |-> <<>>, given |-> FALSE,
     api_kwargs |-> EmptyKwargs, frames |-> <<>>, save_catalog |-> None]

run_sex(step_id, files, given, api_kwargs, frames) ==
    /\ state = "idle"
    /\ CallRunner([NoCall EXCEPT !.runner = "run_sex", !.step_id = step_id,
                                 !.files = files, !.given = given,
                                 !.api_kwargs = api_kwargs, !.frames = frames])

run_scamp(step_id, catalogs, given, api_kwargs, save_catalog) ==
    /\ state = "idle"
    /\ CallRunner([NoCall EXCEPT !.runner = "run_scamp", !.step_id = step_id,
                                 !.files = catalogs, !.given = given,
                                 !.api_kwargs = api_kwargs,
                                 !.save_catalog = save_catalog])

run_swarp(step_id, filenames, api_kwargs, frames) ==
    /\ state = "idle"
    /\ CallRunner([NoCall EXCEPT !.runner = "run_swarp", !.step_id = step_id,
                                 !.files = filenames, !.given = TRUE,
                                 !.api_kwargs = api_kwargs, !.frames = frames])

run_psfex(step_id, catalogs, given, api_kwargs) ==
    /\ state = "idle"
    /\ CallRunner([NoCall EXCEPT !.runner = "run_psfex", !.step_id = step_id,
                                 !.files = catalogs, !.given = given,
                                 !.api_kwargs = api_kwargs])

\* The inputs of the runners.
StepIds == 0..(MaxSteps - 1)

ImageFiles ==
    { [image |-> File("img1", "fits"), dqmask |-> None, wtmap |-> None],
      [image |-> File("img2", "fits"), dqmask |-> File("img2.dqmask", "fits"),
       wtmap |-> File("img2.wtmap", "fits")] }

CatalogLists == { <<File("img1", "cat"), File("img2", "cat")>> }

KwargsConfigs ==
    { <<>>,
      << [key |-> "XML_NAME", value |-> File("my", "xml")] >>,
      << [key |-> "IMAGEOUT_NAME", value |-> File("stack", "fits")] >>,
      << [key |-> "IMAGEOUT_NAME", value |-> File("stack", "fits")],
         [key |-> "XML_NAME", value |-> File("my", "xml")] >> }

\* A caller's dict with every key a runner has a default for, and one with
\* some of them.
SuppliedKwargs ==
    [code |-> "MyCode", cmd |-> "mycmd", temp_path |-> "mytemp",
     has_config |-> TRUE,
     config |-> << [key |-> "CATALOG_NAME", value |-> File("my", "cat")],
                   [key |-> "FLAG_IMAGE", value |-> File("my.flag", "fits")],
                   [key |-> "WEIGHT_IMAGE", value |-> File("my.weight", "fits")],
                   [key |-> "RESAMPLE_DIR", value |-> Word("myresamp")],
                   [key |-> "WRITE_XML", value |-> Word("N")],
                   [key |-> "XML_NAME", value |-> File("my", "xml")],
                   [key |-> "IMAGEOUT_NAME", value |-> File("stack", "fits")],
                   [key |-> "SAVE_REFCATALOG", value |-> Word("N")],
                   [key |-> "REFOUT_CATPATH", value |-> File("myref", "cat")] >>]

PartKwargs ==
    [EmptyKwargs EXCEPT
        !.temp_path = "mytemp", !.has_config = TRUE,
        !.config = << [key |-> "WRITE_XML", value |-> Word("N")],
                      [key |-> "IMAGEOUT_NAME", value |-> File("stack", "fits")] >>]

KwargsInputs ==
    {EmptyKwargs, SuppliedKwargs, PartKwargs} \cup
    { [EmptyKwargs EXCEPT !.has_config = TRUE, !.config = c] :
        c \in KwargsConfigs }

RunnerFrames == { <<>>, <<1>> }

\* A call without api_kwargs is drawn with the empty dict as a placeholder.
Given == { g \in BOOLEAN \X KwargsInputs : g[1] \/ g[2] = EmptyKwargs }

InitRun ==
    /\ steps = <<>>
    /\ next_id = 0
    /\ run_steps = NoSteps
    /\ run_step_idx = 0
    /\ run_warnings = NoTable
    /\ paths = Paths
    /\ ckpt = NoFile
    /\ state = "idle"
    /\ args = NoCall
    /\ ret = NoReturn
    /\ calls = <<>>
    /\ pre = NoPre
    /\ start = 0
    /\ last = NoRun
    /\ prev = NoRun
    /\ runs = 0
    /\ defaults = NoDefaults
    /\ pipes = <<>>
    /\ exists = {}

NextRun ==
    \/ \E id \in StepIds, f \in ImageFiles, g \in Given, fr \in RunnerFrames :
           run_sex(id, f, g[1], g[2], fr)
    \/ \E id \in StepIds, c \in CatalogLists, g \in Given,
          sc \in {None, File("ref", "cat")} :
           run_scamp(id, c, g[1], g[2], sc)
    \/ \E id \in StepIds, f \in CatalogLists, kw \in KwargsInputs,
          fr \in RunnerFrames :
           run_swarp(id, f, kw, fr)
    \/ \E id \in StepIds, c \in CatalogLists, g \in Given :
           run_psfex(id, c, g[1], g[2])

SpecRun == InitRun /\ [][NextRun]_vars

\* ------------------------------------------------ utils.py (21-93), as written
\* A string is the sequence of its characters.  lower() of the letters the
\* answers are written with.
LowerCase ==
    [c \in {"Y", "E", "S", "N", "O", "T", "R", "U", "F", "A", "L"} |->
        CASE c = "Y" -> "y" [] c = "E" -> "e" [] c = "S" -> "s"
          [] c = "N" -> "n" [] c = "O" -> "o" [] c = "T" -> "t"
          [] c = "R" -> "r" [] c = "U" -> "u" [] c = "F" -> "f"
          [] c = "A" -> "a" [] c = "L" -> "l"]

lower(str) ==
    [i \in 1..Len(str) |->
        IF str[i] \in DOMAIN LowerCase THEN LowerCase[str[i]] ELSE str[i]]

\* word.startswith(prefix): true of the empty prefix.
startswith(word, prefix) ==
    /\ Len(prefix) <= Len(word)
    /\ \A i \in 1..Len(prefix) : word[i] = prefix[i]

\* str_2_bool (21-39)
str_2_bool(bool_str) ==
    LET lower_str == lower(bool_str)
    IN  IF \/ startswith(<<"t", "r", "u", "e">>, lower_str)
           \/ startswith(<<"y", "e", "s">>, lower_str)
        THEN [raised |-> "", value |-> TRUE]
        ELSE IF \/ startswith(<<"f", "a", "l", "s", "e">>, lower_str)
                \/ startswith(<<"n", "o">>, lower_str)
        THEN [raised |-> "", value |-> FALSE]
        ELSE [raised |-> "AstromaticError", value |-> FALSE]

\* get_bool (41-53) with the answers raw_input will give, in order (the tests
\* bind raw_input).  `bool_str = str_2_bool(raw_input(prompt))` binds bool_str
\* only when str_2_bool returns; the except branch formats its message with
\* bool_str before it calls get_bool again, and the name is not bound there:
\* UnboundLocalError leaves the function, `return get_bool(prompt)` is not
\* reached.  prompts counts the calls of raw_input.
get_bool(answers) ==
    LET r == str_2_bool(Head(answers))
        bound == r.raised = ""
    IN  IF r.raised = ""
        THEN [raised |-> "", value |-> r.value, prompts |-> 1]
        ELSE IF ~bound
        THEN [raised |-> "UnboundLocalError", value |-> FALSE, prompts |-> 1]
        ELSE [raised |-> "", value |-> FALSE, prompts |-> 1]

\* A path is the sequence of its components.  os.makedirs(path) makes the
\* directory and every directory above it that is missing (create_paths,
\* 55-75; the directories are writable, as the tests' tmpdir is).
Above(path) == { SubSeq(path, 1, n) : n \in 1..Len(path) }

create_paths(ex, path) == ex \cup Above(path)

NoValue == [raised |-> "", value |-> FALSE, prompts |-> 0]

\* check_path(path, auto_create) (77-93): auto_create is a parameter the body
\* does not read.
check_path(path, auto_create, answers) ==
    /\ state = "idle"
    /\ args' = [op |-> "check_path", path |-> path,
                auto_create |-> auto_create, answers |-> answers]
    /\ IF path \in exists
       THEN /\ ret' = NoValue
            /\ exists' = exists
       ELSE LET g == get_bool(answers)
            IN  IF g.raised # ""
                THEN /\ ret' = g
                     /\ exists' = exists
                ELSE IF g.value
                THEN /\ ret' = [g EXCEPT !.value = FALSE]
                     /\ exists' = create_paths(exists, path)
                ELSE /\ ret' = [g EXCEPT !.raised = "AstromaticError"]
                     /\ exists' = exists
    /\ UNCHANGED <<steps, next_id, run_steps, run_step_idx, run_warnings,
                   paths, ckpt, state, calls, pre, start, last, prev, runs,
                   defaults, pipes>>

\* A call of get_bool by itself.
ask(answers) ==
    /\ state = "idle"
    /\ args' = [op |-> "get_bool", path |-> <<>>, auto_create |-> FALSE,
                answers |-> answers]
    /\ ret' = get_bool(answers)
    /\ UNCHANGED <<steps, next_id, run_steps, run_step_idx, run_warnings,
                   paths, ckpt, state, calls, pre, start, last, prev, runs,
                   defaults, pipes, exists>>

\* A call of str_2_bool by itself.
convert(bool_str) ==
    /\ state = "idle"
    /\ args' = [op |-> "str_2_bool", path |-> <<>>, auto_create |-> FALSE,
                answers |-> <<bool_str>>]
    /\ ret' = [raised |-> str_2_bool(bool_str).raised,
               value |-> str_2_bool(bool_str).value, prompts |-> 0]
    /\ UNCHANGED <<steps, next_id, run_steps, run_step_idx, run_warnings,
                   paths, ckpt, state, calls, pre, start, last, prev, runs,
                   defaults, pipes, exists>>

\* The inputs: the strings of test_str_2_bool, short and empty answers, and
\* answers that match nothing; what the user types is some answers that match
\* nothing and then one that does.
ValidAnswers ==
    { <<"Y", "e", "S">>, <<"T", "r", "U", "e">>, <<"n", "O">>,
      <<"f", "A", "L", "s", "e">>, <<"y">>, <<"n">>, <<>> }

InvalidAnswers == { <<"m", "a", "y", "b", "e">>, <<"y", "e", "s", "s">> }

Typed(k) ==
    { s \in [1..(k + 1) -> ValidAnswers \cup InvalidAnswers] :
        /\ s[k + 1] \in ValidAnswers
        /\ \A i \in 1..k : s[i] \in InvalidAnswers }

AnswerInputs == UNION { Typed(k) : k \in 0..MaxInvalid }

PathInputs == { <<"a">>, <<"a", "b">>, <<"c">> }

NextUtils ==
    \/ \E p \in PathInputs, ac \in BOOLEAN, a \in AnswerInputs :
           check_path(p, ac, a)
    \/ \E a \in AnswerInputs : ask(a)
    \/ \E b \in ValidAnswers \cup InvalidAnswers : convert(b)

SpecUtils == Init /\ [][NextUtils]_vars

\* ------------------------------------------------------------------ claims
Halted == {"halted-on-error", "halted-on-exception"}
Terminal == {"completed"} \cup Halted

\* The selection rule in the words of the specification.
ClaimRuns(tags, run_tags, ignore_tags) ==
    /\ (run_tags = {} \/ tags \cap run_tags # {})
    /\ tags \cap ignore_tags = {}

\* What the step at position p produces when it is invoked in the current run.
Produces(p) == Call(steps[p], next_id)
ReturnsError(p) == ~Produces(p).raised /\ Produces(p).result.status = "error"
Faults(p) == Produces(p).raised

\* C1: once run is over, it has invoked a step iff (run_tags is empty or the
\* step has a tag in run_tags) and the step has no tag in ignore_tags.
C1_RunsIffSelected ==
    state \in Terminal =>
        \A p \in 1..Len(steps) :
            p \in Range(calls)
               <=> ClaimRuns(steps[p].tags, args.run_tags, args.ignore_tags)

Min(a, b) == IF a < b THEN a ELSE b

\* The steps of the run's selection that lie before index s.
Before(s) == {run_steps.idx[j] : j \in 1..Min(s, Len(run_steps.idx))}

Fresh(ss) == [i \in 1..Len(ss) |-> [ss[i] EXCEPT !.results = NoResult]]

\* The steps after a run over the selection sel that tolerates errors and
\* faults, from the k-th selected step on.
RECURSIVE Tolerant(_, _, _, _)
Tolerant(ss, sel, k, nid) ==
    IF k > Len(sel) THEN ss
    ELSE Tolerant([ss EXCEPT ![sel[k]].results =
                                 StoredResult(Call(ss[sel[k]], nid))],
                  sel, k + 1, nid)

FromScratch == Tolerant(Fresh(steps), run_steps.idx, 1, next_id)

\* A run started at the first selected step has halted, and the current run
\* resumes the checkpoint it left and has invoked the step that halted.
ResumedAfterHalt ==
    /\ args.resume
    /\ pre.from_ckpt
    /\ prev.state \in Halted
    /\ prev.start = 0
    /\ Len(calls) >= 1

SameUpToRetried ==
    \A j \in 1..(start + 1) :
        steps[run_steps.idx[j]].results
            = FromScratch[run_steps.idx[j]].results

ResultRows(k) ==
    LET p == calls[k]
        r == Produces(p).result
    IN  IF Faults(p) THEN <<>>
        ELSE [i \in 1..Len(r.warnings.rows) |->
                 [text |-> r.warnings.rows[i].text, filename |-> r.filename,
                  step |-> steps[p].step_id]]

\* The rows of the first k invoked steps, in the order of their invocation.
RECURSIVE RowsUpTo(_)
RowsUpTo(k) == IF k = 0 THEN <<>> ELSE RowsUpTo(k - 1) \o ResultRows(k)

HasTable(k) == ~Faults(calls[k]) /\ Produces(calls[k]).result.warnings.present

ClaimOrder ==
    LET all == IF args.pipeline_steps.present THEN args.pipeline_steps.idx
               ELSE [i \in 1..Len(steps) |-> i]
        Keep(p) == ClaimRuns(steps[p].tags, args.run_tags, args.ignore_tags)
    IN  SelectSeq(all, Keep)

C14_IdsUnique ==
    /\ \A i, j \in 1..Len(steps) :
          i < j => steps[i].step_id < steps[j].step_id
    /\ \A i \in 1..Len(steps) : steps[i].step_id < next_id

IsCallableInput(i) == ~IsString(i.func)

C16_UnknownName ==
    [][\A i \in AddInputs :
          (IsString(i.func) /\ i.func \notin Codes
             /\ add_step(i.func, i.tags, i.func_kwargs)) =>
              /\ ret'.status = "PipelineError"
              /\ steps' = steps
              /\ next_id' = next_id]_vars

C16_Witness ==
    /\ ret.status = "PipelineError"
    /\ Len(steps) = 1
    /\ next_id = 1
    /\ steps[1].func = "run_sex"

\* The runner of each tool.
Runner ==
    [c \in Codes |->
        CASE c = "SExtractor" -> "run_sex"
          [] c = "SCAMP"      -> "run_scamp"
          [] c = "SWarp"      -> "run_swarp"
          [] c = "PSFEx"      -> "run_psfex"]

\* C17: add_step with the name of one of the four tools does not raise and
\* registers a step whose function is the runner of that tool.
C17_ToolNames ==
    [][\A i \in AddInputs :
          (i.func \in Codes /\ add_step(i.func, i.tags, i.func_kwargs)) =>
              /\ ret'.status # "PipelineError"
              /\ Len(steps') = Len(steps) + 1
              /\ steps'[Len(steps')].func = Runner[i.func]]_vars

\* The commands of the call, and where the parts of a command start.
NumFiles == Len(args.filenames)
NumConfigFile == IF args.config_file = None THEN 0 ELSE 2
ValueAt(cmd, k) == cmd[1 + NumFiles + NumConfigFile + 2 * k]
FlagAt(cmd, k) == cmd[NumFiles + NumConfigFile + 2 * k]

\* C18: the command build_cmd returns is the executable, the files in the
\* given order, '-c config_file' iff a config file is given, and then for
\* each entry of the mapping, in the mapping's order, '-KEY' and its value
\* (calls without a catalog parameter list, which rewrites the mapping).
C18_CommandLine ==
    (ret.status = "built" /\ ~args.params) =>
        LET cmd == ret.cmds[1]
        IN  /\ Len(cmd) = 1 + NumFiles + NumConfigFile + 2 * Len(args.config)
            /\ cmd[1] = IF args.cmd = None THEN Word(Executable[args.code])
                        ELSE args.cmd
            /\ \A i \in 1..NumFiles : cmd[1 + i] = args.filenames[i]
            /\ args.config_file # None =>
                  /\ cmd[NumFiles + 2] = Flag("c")
                  /\ cmd[NumFiles + 3] = args.config_file
            /\ args.config_file = None =>
                  \A i \in 1..Len(cmd) : cmd[i] # Flag("c")
            /\ \A k \in 1..Len(args.config) :
                  /\ FlagAt(cmd, k) = Flag(args.config[k].key)
                  /\ args.config[k].value.t # "bool" =>
                        ValueAt(cmd, k) = args.config[k].value

C18_Witness ==
    /\ ret.status = "built"
    /\ ~args.params
    /\ args.config = << [key |-> "PARAMETERS_NAME", value |-> File("default", "path")],
                        [key |-> "CATALOG_NAME", value |-> File("test", "fits")] >>
    /\ ret.cmds[1] = << Word("sex"), File("test", "fits"),
                        Flag("c"), File("path/to/config/file", ""),
                        Flag("PARAMETERS_NAME"), File("default", "path"),
                        Flag("CATALOG_NAME"), File("test", "fits") >>

\* C19: in every command built, the value of an entry that is True is the
\* token Y and the value of an entry that is False is the token N; no token
\* of the command is a boolean as Python writes it.
C19_Booleans ==
    ret.status \in {"built", "run"} =>
        \A c \in 1..Len(ret.cmds) :
            /\ \A k \in 1..Len(args.config) :
                  args.config[k].value.t = "bool" =>
                      ValueAt(ret.cmds[c], k)
                          = Word(IF args.config[k].value = Bool(TRUE)
                                 THEN "Y" ELSE "N")
            /\ \A i \in 1..Len(ret.cmds[c]) :
                  /\ ret.cmds[c][i].t # "bool"
                  /\ ret.cmds[c][i].s \notin {"True", "False"}

C19_Witness ==
    /\ ret.status = "built"
    /\ Len(args.config) = 2
    /\ args.config[2] = [key |-> "FILTER", value |-> Bool(FALSE)]
    /\ ValueAt(ret.cmds[1], 2) = Word("N")
    /\ FlagAt(ret.cmds[1], 2) = Flag("FILTER")

\* The keys whose value names a file the claim lists: the catalog, the
\* weight map and the flag map.
FileKeys == {"CATALOG_NAME", "WEIGHT_IMAGE", "FLAG_IMAGE"}

\* C20: in the command run_frames builds for a frame, the target files and
\* the values of the catalog name, the weight map and the flag map all carry
\* the suffix of that frame.
C20_FrameSuffix ==
    ret.status = "run" =>
        \A c \in 1..Len(ret.cmds) :
            /\ \A i \in 1..NumFiles :
                  ret.cmds[c][1 + i].frame = args.frames[c]
            /\ \A k \in 1..Len(args.config) :
                  args.config[k].key \in FileKeys =>
                      ValueAt(ret.cmds[c], k).frame = args.frames[c]

\* The places of the caller's PARAMETERS_NAME in the mapping, and the file
\* '<temp-dir>/<tool>.param'.
SuppliedParams ==
    {k \in 1..Len(args.config) : args.config[k].key = "PARAMETERS_NAME"}

ToolParamFile ==
    [t |-> "file", s |-> Executable[args.code], ext |-> "param", frame |-> 0,
     part |-> 0, dir |-> args.temp_path]

\* C21: with a parameter list and no config file, the command has one
\* PARAMETERS_NAME option, its value is '<temp-dir>/<tool>.param', it stands
\* where the caller's PARAMETERS_NAME stood, and the file holds the parameter
\* names in the given order; with a config file the caller's PARAMETERS_NAME
\* is written as given.
C21_ParamFile ==
    (ret.status = "built" /\ args.params) =>
        LET cmd == ret.cmds[1]
            Named == {i \in 1..Len(cmd) : cmd[i] = Flag("PARAMETERS_NAME")}
        IN  IF args.config_file = None
            THEN /\ ret.param_file.present
                 /\ ret.param_file.name = ToolParamFile
                 /\ ret.param_file.lines = args.param_names
                 /\ Cardinality(Named) = 1
                 /\ \A i \in Named : cmd[i + 1] = ToolParamFile
                 /\ \A k \in SuppliedParams :
                       /\ FlagAt(cmd, k) = Flag("PARAMETERS_NAME")
                       /\ Len(cmd) = 1 + NumFiles + 2 * Len(args.config)
            ELSE \A k \in SuppliedParams :
                     /\ FlagAt(cmd, k) = Flag("PARAMETERS_NAME")
                     /\ ValueAt(cmd, k) = args.config[k].value

C21_Witness ==
    /\ ret.status = "built"
    /\ args.params
    /\ args.config_file = None
    /\ args.param_names = <<"Y_WORLD", "X_WORLD">>
    /\ args.config = << [key |-> "PARAMETERS_NAME", value |-> File("default", "path")],
                        [key |-> "CATALOG_NAME", value |-> File("test", "fits")] >>
    /\ ValueAt(ret.cmds[1], 1) = InDir("temp", File("sex", "param"))
    /\ ret.param_file.lines = <<"Y_WORLD", "X_WORLD">>

ToolShortName ==
    [run_sex |-> "sex", run_scamp |-> "scamp", run_swarp |-> "swarp",
     run_psfex |-> "psfex"]

ConfigValue(config, key) ==
    LET i == CHOOSE i \in 1..Len(config) : config[i].key = key
    IN  config[i].value

\* C23: a runner called with a configuration that has no XML_NAME (and, for
\* run_swarp, has IMAGEOUT_NAME) runs its tool with XML_NAME set to
\* '<log-dir>/<step-id>.<tool-short-name>.log.xml'.
C23_XmlName ==
    (ret # NoReturn /\ args.given
        /\ ~HasKey(args.api_kwargs.config, "XML_NAME")
        /\ (args.runner = "run_swarp" =>
                HasKey(args.api_kwargs.config, "IMAGEOUT_NAME"))) =>
        /\ ret.status = "invoked"
        /\ HasKey(ret.kwargs.config, "XML_NAME")
        /\ ConfigValue(ret.kwargs.config, "XML_NAME") =
               [t |-> "log", step_id |-> args.step_id,
                s |-> ToolShortName[args.runner], ext |-> "log.xml",
                dir |-> paths.log]

\* C24: run_sex, run_scamp and run_psfex called without api_kwargs work on a
\* fresh dict: the call leaves the dict a call on an empty dict leaves.
C24_FreshKwargs ==
    (ret # NoReturn /\ ~args.given) =>
        ret.kwargs = Outcome(args, EmptyKwargs).kw

\* What the claim lists of a pipeline, in memory and as a checkpoint file
\* gives it back.
Listed == <<steps, next_id, run_step_idx, run_warnings, paths>>

Restored(file) ==
    <<file.steps, file.next_id, file.run_step_idx, file.run_warnings,
      file.paths>>

C26_CursorBound == run_step_idx <= Len(steps)

C28_AtomicReplace ==
    /\ ckpt.present => Complete(ckpt)
    /\ state \in {"writing", "crashed"} =>
          ckpt = prev \/ ckpt = Written(last, MaxChunks)

\* The selection made from the steps as they were when the run started.
SelectedAtStart ==
    SelectSteps(pre.steps, PipelineSteps(args, pre.steps), 1,
                args.run_tags, args.ignore_tags)

FirstSelected ==
    LET Sel == {p \in 1..Len(steps) :
                   ClaimRuns(steps[p].tags, args.run_tags, args.ignore_tags)}
    IN  IF Sel = {} THEN 0
        ELSE CHOOSE p \in Sel : \A q \in Sel : p <= q

\* C31: once a run from the start is over, the first step it had to execute
\* holds what its callable returns when it is called with the pipeline, the
\* step's id and the step's keyword arguments (for test_func1: its step_id
\* and the pipeline's next_id), unless the callable raises.
C31_StoresReturn ==
    (state \in Terminal /\ FirstSelected # 0 /\ ~Faults(FirstSelected)) =>
        steps[FirstSelected].results = Produces(FirstSelected).result

\* C32: a pipeline constructed without steps starts with no step and next_id
\* 0, whatever was registered on other pipelines before; and a step of the
\* model that leaves the next_id of an instance alone (a construction, or an
\* add_step on another instance) leaves its steps alone.
C32_OwnSteps ==
    [][/\ (Len(pipes') > Len(pipes) /\ pipes'[Len(pipes')].shared) =>
             /\ StepsOf(pipes', defaults', Len(pipes')) = <<>>
             /\ pipes'[Len(pipes')].next_id = 0
       /\ \A k \in 1..Len(pipes) :
             pipes'[k].next_id = pipes[k].next_id =>
                StepsOf(pipes', defaults', k) = StepsOf(pipes, defaults, k)]_vars

\* What add_step registers: the steps in their order, each with its id, its
\* callable, its tags and its keyword arguments, and the next id.
Registry ==
    << [p \in 1..Len(steps) |->
           [step_id |-> steps[p].step_id, func |-> steps[p].func,
            tags |-> steps[p].tags, func_kwargs |-> steps[p].func_kwargs]],
       next_id >>

Overwritten ==
    IF args.runner = "run_scamp" /\ args.save_catalog # None
    THEN {"SAVE_REFCATALOG", "REFOUT_CATPATH"} ELSE {}

\* C34: after a call of a runner with the caller's api_kwargs, every key the
\* caller supplied (code, cmd, temp_path, and each key of config) has the
\* caller's value, except SAVE_REFCATALOG and REFOUT_CATPATH after a call of
\* run_scamp with save_catalog.
C34_SuppliedKept ==
    (ret # NoReturn /\ args.given) =>
        /\ args.api_kwargs.code # "" => ret.kwargs.code = args.api_kwargs.code
        /\ args.api_kwargs.cmd # "" => ret.kwargs.cmd = args.api_kwargs.cmd
        /\ args.api_kwargs.temp_path # "" =>
               ret.kwargs.temp_path = args.api_kwargs.temp_path
        /\ \A i \in 1..Len(args.api_kwargs.config) :
               LET item == args.api_kwargs.config[i]
               IN  item.key \notin Overwritten =>
                       /\ HasKey(ret.kwargs.config, item.key)
                       /\ ConfigValue(ret.kwargs.config, item.key) = item.value

\* run_sex has run the tool on a dict that had a value for each of its
\* defaults, with mask and weight files at hand.
C34_Witness ==
    /\ ret # NoReturn
    /\ args.runner = "run_sex"
    /\ args.given
    /\ args.api_kwargs = SuppliedKwargs
    /\ args.files.dqmask # None
    /\ ret.status = "invoked"
    /\ ret.kwargs = SuppliedKwargs

\* run_scamp with save_catalog has replaced the caller's two keys.
C34_WitnessScamp ==
    /\ ret # NoReturn
    /\ args.runner = "run_scamp"
    /\ args.api_kwargs = SuppliedKwargs
    /\ args.save_catalog # None
    /\ ConfigValue(ret.kwargs.config, "SAVE_REFCATALOG") = Word("Y")
    /\ ConfigValue(ret.kwargs.config, "REFOUT_CATPATH") = args.save_catalog
    /\ ConfigValue(ret.kwargs.config, "WRITE_XML") = Word("N")

\* The answer that matches, the last one typed.
Valid(answers) == str_2_bool(answers[Len(answers)])

\* C36: get_bool called with answers that match nothing followed by one that
\* does asks once for each of them, raises nothing and returns the boolean of
\* the one that matches.
C36_Reprompts ==
    (ret # NoReturn /\ args.op = "get_bool") =>
        /\ ret.raised = ""
        /\ ret.prompts = Len(args.answers)
        /\ ret.value = Valid(args.answers).value

\* C35: check_path of a path that is there asks nothing and changes nothing;
\* of a path that is not there, with auto_create it makes the path and asks
\* nothing, without it asks and makes the path on a yes, raises and leaves
\* the path missing on a no.
C35_CheckPath ==
    [][args'.op = "check_path" =>
          LET path == args'.path
          IN  IF path \in exists
              THEN ret'.prompts = 0 /\ ret'.raised = "" /\ exists' = exists
              ELSE IF args'.auto_create
              THEN ret'.prompts = 0 /\ ret'.raised = "" /\ path \in exists'
              ELSE /\ ret'.prompts >= 1
                   /\ IF Valid(args'.answers).value
                      THEN ret'.raised = "" /\ path \in exists'
                      ELSE ret'.raised # "" /\ exists' = exists]_vars
====
